---- MODULE Spec2Model ----
(***************************************************************************)
(* Model of the StarkNet chain adapter:                                    *)
(*   - src/starknet/src/provider.rs : HttpProvider (get_head, get_block,   *)
(*     get_state_update, get_transaction_receipt), the ToProto transcoder  *)
(*     and the TransactionHash -> FieldElement codec;                      *)
(*   - src/starknet/src/server/mod.rs : Server::start, the listener, the   *)
(*     health reporter task and the shared cancellation token.             *)
(*                                                                         *)
(* 64-bit integers and field elements are big-endian byte sequences (8 and *)
(* 32 bytes), so that u64::MAX, the `as i64` cast and the 252-bit range    *)
(* check keep their exact width.                                           *)
(***************************************************************************)
EXTENDS Integers, Sequences, FiniteSets, TLC

VARIABLES
    \* ---- provider: one call of the Provider trait in flight
    ppc,        \* "idle" | "awaiting" | "done"
    pcall,      \* the call: [op |-> ..., id |-> ...] or [op |-> ..., hash |-> ...]
    presp,      \* the backend's answer to this call's request ([kind |-> "None"] before)
    presult,    \* what the call returned ([tag |-> "None"] before it returns)
    requests,   \* backend requests issued by this call
    \* ---- codec: TransactionHash -> FieldElement
    cin,        \* the input byte slice
    cout,       \* the conversion's result ([tag |-> "None"] before it ran)
    \* ---- transcoder: one backend transaction normalized by to_proto
    tin,        \* the backend transaction ([kind |-> "None"] when there is none)
    tout,       \* the normalized transaction ([tag |-> "None"] before to_proto ran)
    \* ---- server: one execution of Server::start
    spc,        \* position of start: "spawn" | "reflection" | "serve" | "serving"
                \*                    | "cancel" | "join" | "returned"
    ct,         \* the shared CancellationToken is cancelled
    reporter,   \* health reporter task: "not_spawned" | "running" | "finished" | "panicked"
    reflection, \* reflection service: "unbuilt" | "built" | "failed"
    lis,        \* listener: "not_started" | "serving" | "draining" | "stopped" | "failed"
    inflight,   \* requests the listener is serving
    health,     \* status the health service last got from the reporter
    sret        \* start's return value: "none" | "Ok" | "ReflectionServer" | "Transport" | "Task"

pvars == <<ppc, pcall, presp, presult, requests>>
cvars == <<cin, cout>>
tvars == <<tin, tout>>
svars == <<spc, ct, reporter, reflection, lis, inflight, health, sret>>
vars == <<ppc, pcall, presp, presult, requests, cin, cout, tin, tout,
          spc, ct, reporter, reflection, lis, inflight, health, sret>>

----------------------------------------------------------------------------
(* Bounds of the model *)

\* longest byte slice handed to the codec (one more than the 32 it accepts)
MaxInputLen == 33
\* most transactions in a block returned by the backend
MaxTxs == 1
\* most requests the listener serves at once
MaxInflight == 2
\* longest signature of a backend transaction handed to the transcoder
MaxSig == 1

----------------------------------------------------------------------------
(* Bytes, u64 and field elements *)

Rep(b, n) == [i \in 1..n |-> b]

\* a u64 as 8 big-endian bytes
U64Of(n) == [i \in 1..8 |-> IF i = 8 THEN n ELSE 0]
U64_MAX == Rep(255, 8)
U64_HIGH == [i \in 1..8 |-> IF i = 1 THEN 128 ELSE IF i = 8 THEN 5 ELSE 0]

\* lexicographic (= numeric, for equal lengths) comparison of big-endian bytes
RECURSIVE LessBE(_, _, _)
LessBE(a, b, i) ==
    IF i > Len(a) THEN FALSE
    ELSE IF a[i] < b[i] THEN TRUE
    ELSE IF a[i] > b[i] THEN FALSE
    ELSE LessBE(a, b, i + 1)

\* two's complement negation of a byte sequence (from the least significant byte)
RECURSIVE NegBytes(_, _, _)
NegBytes(b, i, carry) ==
    IF i = 0 THEN <<>>
    ELSE LET v == (255 - b[i]) + carry
         IN  NegBytes(b, i - 1, v \div 256) \o <<v % 256>>

\* `x as i64` for x: u64 -- the same 64 bits read as two's complement
AsI64(x) ==
    IF x[1] >= 128
    THEN [negative |-> TRUE, magnitude |-> NegBytes(x, 8, 1)]
    ELSE [negative |-> FALSE, magnitude |-> x]

\* the 64 bits of an i64
I64Bits(s) == IF s.negative THEN NegBytes(s.magnitude, 8, 1) ELSE s.magnitude

\* the StarkNet field prime 2^251 + 17 * 2^192 + 1, as 32 big-endian bytes
FieldPrime ==
    [i \in 1..32 |-> IF i = 1 THEN 8 ELSE IF i = 8 THEN 17 ELSE IF i = 32 THEN 1 ELSE 0]

FieldElementZERO == Rep(0, 32)

\* FieldElement::from_bytes_be: the value of the 32 bytes if below the prime
FromBytesBe(buf) ==
    IF LessBE(buf, FieldPrime, 1)
    THEN [tag |-> "Ok", value |-> buf]
    ELSE [tag |-> "Err", err |-> "FromByteArrayError"]

\* v1alpha2::FieldElement: four u64 limbs of the big-endian bytes
FieldElementIntoProto(fe) ==
    [lo_lo |-> SubSeq(fe, 1, 8), lo_hi |-> SubSeq(fe, 9, 16),
     hi_lo |-> SubSeq(fe, 17, 24), hi_hi |-> SubSeq(fe, 25, 32)]

\* v1alpha2::FieldElement::to_bytes
ProtoToBytes(p) == p.lo_lo \o p.lo_hi \o p.hi_lo \o p.hi_hi

\* TryFrom<&v1alpha2::FieldElement> for FieldElement
ProtoTryIntoFieldElement(p) == FromBytesBe(ProtoToBytes(p))

\* TryFrom<&BlockHash> for FieldElement
BlockHashTryInto(hash) == FromBytesBe(hash)

\* BlockHash from a v1alpha2::FieldElement
ProtoIntoBlockHash(p) == ProtoToBytes(p)

----------------------------------------------------------------------------
(* TransactionHash -> FieldElement *)

HashMaxLen == 32

\* buf = [0; 32]; buf[..hash_len].copy_from_slice(value.0)
CopyToFront(bytes) ==
    [i \in 1..HashMaxLen |-> IF i <= Len(bytes) THEN bytes[i] ELSE 0]

\* the conversion without the length check: a longer slice is cut to 32 bytes
TransactionHashTryInto_Truncates(bytes) == FromBytesBe(CopyToFront(bytes))

TransactionHashTryInto(bytes) ==
    IF Len(bytes) > HashMaxLen
    THEN [tag |-> "Err", err |-> "FromByteArrayError"]
    ELSE FromBytesBe(CopyToFront(bytes))

\* the input left-zero-padded to 32 bytes
LeftPad32(bytes) ==
    [i \in 1..32 |-> IF i <= 32 - Len(bytes) THEN 0 ELSE bytes[i - (32 - Len(bytes))]]

----------------------------------------------------------------------------
(* Option values *)

Some(x) == [some |-> TRUE, v |-> x]
None == [some |-> FALSE]

----------------------------------------------------------------------------
(* Transcoder: transactions *)

\* v1alpha2::TransactionMeta::default()
TransactionMetaDefault ==
    [hash |-> None, max_fee |-> None, signature |-> <<>>, nonce |-> None,
     version |-> U64Of(0)]

InvokeTransactionV0ToProto(tx) ==
    [meta |-> Some([hash |-> Some(FieldElementIntoProto(tx.transaction_hash)),
                    max_fee |-> Some(FieldElementIntoProto(tx.max_fee)),
                    signature |-> [i \in 1..Len(tx.signature) |-> FieldElementIntoProto(tx.signature[i])],
                    nonce |-> Some(FieldElementIntoProto(tx.nonce)),
                    version |-> U64Of(0)]),
     transaction |-> Some(
        [kind |-> "InvokeV0",
         contract_address |-> Some(FieldElementIntoProto(tx.contract_address)),
         entry_point_selector |-> Some(FieldElementIntoProto(tx.entry_point_selector)),
         calldata |-> [i \in 1..Len(tx.calldata) |-> FieldElementIntoProto(tx.calldata[i])]])]

\* the V1 mapping with the meta version of its kind, 1, in place of the literal 0
InvokeTransactionV1ToProto_Version1(tx) ==
    [meta |-> Some([hash |-> Some(FieldElementIntoProto(tx.transaction_hash)),
                    max_fee |-> Some(FieldElementIntoProto(tx.max_fee)),
                    signature |-> [i \in 1..Len(tx.signature) |-> FieldElementIntoProto(tx.signature[i])],
                    nonce |-> Some(FieldElementIntoProto(tx.nonce)),
                    version |-> U64Of(1)]),
     transaction |-> Some(
        [kind |-> "InvokeV1",
         sender_address |-> Some(FieldElementIntoProto(tx.sender_address)),
         calldata |-> [i \in 1..Len(tx.calldata) |-> FieldElementIntoProto(tx.calldata[i])]])]

InvokeTransactionV1ToProto(tx) ==
    [meta |-> Some([hash |-> Some(FieldElementIntoProto(tx.transaction_hash)),
                    max_fee |-> Some(FieldElementIntoProto(tx.max_fee)),
                    signature |-> [i \in 1..Len(tx.signature) |-> FieldElementIntoProto(tx.signature[i])],
                    nonce |-> Some(FieldElementIntoProto(tx.nonce)),
                    version |-> U64Of(0)]),
     transaction |-> Some(
        [kind |-> "InvokeV1",
         sender_address |-> Some(FieldElementIntoProto(tx.sender_address)),
         calldata |-> [i \in 1..Len(tx.calldata) |-> FieldElementIntoProto(tx.calldata[i])]])]

InvokeTransactionToProto(tx) ==
    IF tx.kind = "InvokeV0" THEN InvokeTransactionV0ToProto(tx)
    ELSE InvokeTransactionV1ToProto(tx)

DeployTransactionToProto(tx) ==
    [meta |-> Some([TransactionMetaDefault EXCEPT
                        !.hash = Some(FieldElementIntoProto(tx.transaction_hash)),
                        !.version = tx.version]),
     transaction |-> Some(
        [kind |-> "Deploy",
         class_hash |-> Some(FieldElementIntoProto(tx.class_hash)),
         contract_address_salt |-> Some(FieldElementIntoProto(tx.contract_address_salt)),
         constructor_calldata |-> [i \in 1..Len(tx.constructor_calldata) |-> FieldElementIntoProto(tx.constructor_calldata[i])]])]

DeclareTransactionToProto(tx) ==
    [meta |-> Some([hash |-> Some(FieldElementIntoProto(tx.transaction_hash)),
                    max_fee |-> Some(FieldElementIntoProto(tx.max_fee)),
                    signature |-> [i \in 1..Len(tx.signature) |-> FieldElementIntoProto(tx.signature[i])],
                    nonce |-> Some(FieldElementIntoProto(tx.nonce)),
                    version |-> tx.version]),
     transaction |-> Some(
        [kind |-> "Declare",
         class_hash |-> Some(FieldElementIntoProto(tx.class_hash)),
         sender_address |-> Some(FieldElementIntoProto(tx.sender_address))])]

\* the L1Handler mapping that leaves the version to TransactionMeta::default()
L1HandlerTransactionToProto_DefaultVersion(tx) ==
    [meta |-> Some([TransactionMetaDefault EXCEPT
                        !.hash = Some(FieldElementIntoProto(tx.transaction_hash))]),
     transaction |-> Some(
        [kind |-> "L1Handler",
         contract_address |-> Some(FieldElementIntoProto(tx.contract_address)),
         entry_point_selector |-> Some(FieldElementIntoProto(tx.entry_point_selector)),
         calldata |-> [i \in 1..Len(tx.calldata) |-> FieldElementIntoProto(tx.calldata[i])]])]

L1HandlerTransactionToProto(tx) ==
    [meta |-> Some([TransactionMetaDefault EXCEPT
                        !.hash = Some(FieldElementIntoProto(tx.transaction_hash)),
                        !.version = tx.version]),
     transaction |-> Some(
        [kind |-> "L1Handler",
         contract_address |-> Some(FieldElementIntoProto(tx.contract_address)),
         entry_point_selector |-> Some(FieldElementIntoProto(tx.entry_point_selector)),
         calldata |-> [i \in 1..Len(tx.calldata) |-> FieldElementIntoProto(tx.calldata[i])]])]

DeployAccountTransactionToProto(tx) ==
    [meta |-> Some([hash |-> Some(FieldElementIntoProto(tx.transaction_hash)),
                    max_fee |-> Some(FieldElementIntoProto(tx.max_fee)),
                    signature |-> [i \in 1..Len(tx.signature) |-> FieldElementIntoProto(tx.signature[i])],
                    nonce |-> Some(FieldElementIntoProto(tx.nonce)),
                    version |-> tx.version]),
     transaction |-> Some(
        [kind |-> "DeployAccount",
         contract_address_salt |-> Some(FieldElementIntoProto(tx.contract_address_salt)),
         class_hash |-> Some(FieldElementIntoProto(tx.class_hash)),
         constructor_calldata |-> [i \in 1..Len(tx.constructor_calldata) |-> FieldElementIntoProto(tx.constructor_calldata[i])]])]

TransactionToProto(tx) ==
    CASE tx.kind \in {"InvokeV0", "InvokeV1"} -> InvokeTransactionToProto(tx)
      [] tx.kind = "Deploy" -> DeployTransactionToProto(tx)
      [] tx.kind = "Declare" -> DeclareTransactionToProto(tx)
      [] tx.kind = "L1Handler" -> L1HandlerTransactionToProto(tx)
      [] tx.kind = "DeployAccount" -> DeployAccountTransactionToProto(tx)

----------------------------------------------------------------------------
(* Transcoder: receipts *)

MsgToL1ToProto(msg) ==
    [to_address |-> Some(FieldElementIntoProto(msg.to_address)),
     payload |-> [i \in 1..Len(msg.payload) |-> FieldElementIntoProto(msg.payload[i])]]

EventToProto(ev) ==
    [from_address |-> Some(FieldElementIntoProto(ev.from_address)),
     keys |-> [i \in 1..Len(ev.keys) |-> FieldElementIntoProto(ev.keys[i])],
     data |-> [i \in 1..Len(ev.data) |-> FieldElementIntoProto(ev.data[i])]]

\* the v1alpha2::TransactionReceipt literal every receipt impl builds
ReceiptLiteral(r, contract_address) ==
    [transaction_index |-> U64Of(0),
     transaction_hash |-> Some(FieldElementIntoProto(r.transaction_hash)),
     actual_fee |-> Some(FieldElementIntoProto(r.actual_fee)),
     l2_to_l1_messages |-> [i \in 1..Len(r.messages_sent) |-> MsgToL1ToProto(r.messages_sent[i])],
     events |-> [i \in 1..Len(r.events) |-> EventToProto(r.events[i])],
     contract_address |-> contract_address]

PendingInvokeTransactionReceiptToProto(r) == ReceiptLiteral(r, None)

PendingL1HandlerTransactionReceiptToProto(r) == ReceiptLiteral(r, None)

PendingDeclareTransactionReceiptToProto(r) == ReceiptLiteral(r, None)

PendingDeployTransactionReceiptToProto(r) ==
    ReceiptLiteral(r, Some(FieldElementIntoProto(r.contract_address)))

PendingDeployAccountTransactionReceiptToProto(r) == ReceiptLiteral(r, None)

InvokeTransactionReceiptToProto(r) == ReceiptLiteral(r, None)

L1HandlerTransactionReceiptToProto(r) == ReceiptLiteral(r, None)

DeclareTransactionReceiptToProto(r) == ReceiptLiteral(r, None)

DeployTransactionReceiptToProto(r) ==
    ReceiptLiteral(r, Some(FieldElementIntoProto(r.contract_address)))

DeployAccountTransactionReceiptToProto(r) ==
    ReceiptLiteral(r, Some(FieldElementIntoProto(r.contract_address)))

PendingTransactionReceiptToProto(r) ==
    CASE r.kind = "Invoke" -> PendingInvokeTransactionReceiptToProto(r)
      [] r.kind = "L1Handler" -> PendingL1HandlerTransactionReceiptToProto(r)
      [] r.kind = "Declare" -> PendingDeclareTransactionReceiptToProto(r)
      [] r.kind = "Deploy" -> PendingDeployTransactionReceiptToProto(r)
      [] r.kind = "DeployAccount" -> PendingDeployAccountTransactionReceiptToProto(r)

TransactionReceiptToProto(r) ==
    CASE r.kind = "Invoke" -> InvokeTransactionReceiptToProto(r)
      [] r.kind = "L1Handler" -> L1HandlerTransactionReceiptToProto(r)
      [] r.kind = "Declare" -> DeclareTransactionReceiptToProto(r)
      [] r.kind = "Deploy" -> DeployTransactionReceiptToProto(r)
      [] r.kind = "DeployAccount" -> DeployAccountTransactionReceiptToProto(r)

MaybePendingTransactionReceiptToProto(r) ==
    IF r.pending THEN PendingTransactionReceiptToProto(r)
    ELSE TransactionReceiptToProto(r)

----------------------------------------------------------------------------
(* Transcoder: blocks *)

BlockStatusToProto(status) ==
    CASE status = "Pending" -> "Pending"
      [] status = "AcceptedOnL2" -> "AcceptedOnL2"
      [] status = "AcceptedOnL1" -> "AcceptedOnL1"
      [] status = "Rejected" -> "Rejected"

BlockWithTxsStatusToProto(block) == BlockStatusToProto(block.status)

PendingBlockWithTxsStatusToProto(block) == "Pending"

BlockWithTxsHeaderToProto(block) ==
    [block_hash |-> Some(FieldElementIntoProto(block.block_hash)),
     parent_block_hash |-> Some(FieldElementIntoProto(block.parent_hash)),
     block_number |-> block.block_number,
     sequencer_address |-> Some(FieldElementIntoProto(block.sequencer_address)),
     new_root |-> Some(FieldElementIntoProto(block.new_root)),
     timestamp |-> Some([nanos |-> 0, seconds |-> AsI64(block.timestamp)])]

\* a pending header that keeps a state root, as the confirmed header does
PendingBlockWithTxsHeaderToProto_WithRoot(block) ==
    [block_hash |-> Some(FieldElementIntoProto(FieldElementZERO)),
     parent_block_hash |-> Some(FieldElementIntoProto(block.parent_hash)),
     block_number |-> U64_MAX,
     sequencer_address |-> Some(FieldElementIntoProto(block.sequencer_address)),
     new_root |-> Some(FieldElementIntoProto(FieldElementZERO)),
     timestamp |-> Some([nanos |-> 0, seconds |-> AsI64(block.timestamp)])]

PendingBlockWithTxsHeaderToProto(block) ==
    [block_hash |-> Some(FieldElementIntoProto(FieldElementZERO)),
     parent_block_hash |-> Some(FieldElementIntoProto(block.parent_hash)),
     block_number |-> U64_MAX,
     sequencer_address |-> Some(FieldElementIntoProto(block.sequencer_address)),
     new_root |-> None,
     timestamp |-> Some([nanos |-> 0, seconds |-> AsI64(block.timestamp)])]

BlockWithTxsBodyToProto(block) ==
    [transactions |-> [i \in 1..Len(block.transactions) |-> TransactionToProto(block.transactions[i])]]

PendingBlockWithTxsBodyToProto(block) ==
    [transactions |-> [i \in 1..Len(block.transactions) |-> TransactionToProto(block.transactions[i])]]

----------------------------------------------------------------------------
(* Transcoder: state updates *)

StorageEntryToProto(e) ==
    [key |-> Some(FieldElementIntoProto(e.key)),
     value |-> Some(FieldElementIntoProto(e.value))]

ContractStorageDiffItemToProto(d) ==
    [contract_address |-> Some(FieldElementIntoProto(d.address)),
     storage_entries |-> [i \in 1..Len(d.storage_entries) |-> StorageEntryToProto(d.storage_entries[i])]]

DeclaredContractToProto(fe) == [class_hash |-> Some(FieldElementIntoProto(fe))]

DeployedContractItemToProto(d) ==
    [contract_address |-> Some(FieldElementIntoProto(d.address)),
     class_hash |-> Some(FieldElementIntoProto(d.class_hash))]

NonceUpdateToProto(n) ==
    [contract_address |-> Some(FieldElementIntoProto(n.contract_address)),
     nonce |-> Some(FieldElementIntoProto(n.nonce))]

StateDiffToProto(d) ==
    [storage_diffs |-> [i \in 1..Len(d.storage_diffs) |-> ContractStorageDiffItemToProto(d.storage_diffs[i])],
     declared_contracts |-> [i \in 1..Len(d.declared_contract_hashes) |-> DeclaredContractToProto(d.declared_contract_hashes[i])],
     deployed_contracts |-> [i \in 1..Len(d.deployed_contracts) |-> DeployedContractItemToProto(d.deployed_contracts[i])],
     nonces |-> [i \in 1..Len(d.nonces) |-> NonceUpdateToProto(d.nonces[i])]]

StateUpdateToProto(u) ==
    [new_root |-> Some(FieldElementIntoProto(u.new_root)),
     old_root |-> Some(FieldElementIntoProto(u.old_root)),
     state_diff |-> Some(StateDiffToProto(u.state_diff))]

----------------------------------------------------------------------------
(* Inputs: what callers pass and what the backend may answer *)

\* a field element below the prime whose four limbs differ
FE(n) == [i \in 1..32 |-> IF i % 8 = 0 THEN n + (i \div 8) ELSE 0]

\* 32 bytes that are no field element (at or above the prime)
NotAFieldElement == Rep(255, 32)

SampleU64 == {U64Of(0), U64Of(100)}
SampleTimestamps == {U64Of(100), U64_HIGH}

TxKinds == {"InvokeV0", "InvokeV1", "Deploy", "Declare", "L1Handler", "DeployAccount"}

\* a backend transaction of the given kind (jsonrpc::models)
TxOf(kind, h, version, signature) ==
    CASE kind = "InvokeV0" ->
            [kind |-> kind, transaction_hash |-> h, max_fee |-> FE(20),
             signature |-> signature, nonce |-> FE(21), contract_address |-> FE(22),
             entry_point_selector |-> FE(23), calldata |-> <<FE(24), FE(25)>>]
      [] kind = "InvokeV1" ->
            [kind |-> kind, transaction_hash |-> h, max_fee |-> FE(20),
             signature |-> signature, nonce |-> FE(21), sender_address |-> FE(22),
             calldata |-> <<FE(24), FE(25)>>]
      [] kind = "Deploy" ->
            [kind |-> kind, transaction_hash |-> h, version |-> version,
             class_hash |-> FE(26), contract_address_salt |-> FE(27),
             constructor_calldata |-> <<FE(28)>>]
      [] kind = "Declare" ->
            [kind |-> kind, transaction_hash |-> h, max_fee |-> FE(20),
             signature |-> signature, nonce |-> FE(21), version |-> version,
             class_hash |-> FE(26), sender_address |-> FE(22)]
      [] kind = "L1Handler" ->
            [kind |-> kind, transaction_hash |-> h, version |-> version,
             nonce |-> U64Of(7), contract_address |-> FE(22),
             entry_point_selector |-> FE(23), calldata |-> <<FE(24)>>]
      [] kind = "DeployAccount" ->
            [kind |-> kind, transaction_hash |-> h, max_fee |-> FE(20),
             signature |-> signature, nonce |-> FE(21), version |-> version,
             contract_address_salt |-> FE(27), class_hash |-> FE(26),
             constructor_calldata |-> <<FE(28)>>]

BlockTxs == {TxOf(k, FE(10), U64Of(1), <<FE(11), FE(12)>>) : k \in TxKinds}

SeqsUpTo(S, n) == UNION {[1..m -> S] : m \in 0..n}

BlockIds ==
    {[kind |-> "Latest"], [kind |-> "Pending"]}
    \cup {[kind |-> "Hash", hash |-> h] : h \in {FE(1), NotAFieldElement}}
    \cup {[kind |-> "Number", number |-> n] : n \in SampleU64}

\* MaybePendingBlockWithTxs::Block
Blocks ==
    [status : {"Pending", "AcceptedOnL2", "AcceptedOnL1", "Rejected"},
     block_hash : {FE(1), FE(2)}, parent_hash : {FE(3)},
     block_number : SampleU64, new_root : {FE(4)}, sequencer_address : {FE(5)},
     timestamp : SampleTimestamps, transactions : SeqsUpTo(BlockTxs, MaxTxs)]

\* MaybePendingBlockWithTxs::PendingBlock
PendingBlocks ==
    [parent_hash : {FE(3), FE(6)}, sequencer_address : {FE(5), FE(7)},
     timestamp : SampleTimestamps, transactions : SeqsUpTo(BlockTxs, MaxTxs)]

SampleMsg == [to_address |-> FE(30), payload |-> <<FE(31)>>]
SampleEvent == [from_address |-> FE(32), keys |-> <<FE(33)>>, data |-> <<FE(34), FE(35)>>]

ReceiptKinds == {"Invoke", "L1Handler", "Declare", "Deploy", "DeployAccount"}
DeployKinds == {"Deploy", "DeployAccount"}

\* MaybePendingTransactionReceipt: the deploy kinds carry the deployed address
Receipts ==
    [pending : BOOLEAN, kind : ReceiptKinds \ DeployKinds, transaction_hash : {FE(10)},
     actual_fee : {FE(13)}, messages_sent : {<<>>, <<SampleMsg>>},
     events : {<<>>, <<SampleEvent>>}]
    \cup
    [pending : BOOLEAN, kind : DeployKinds, transaction_hash : {FE(10)},
     actual_fee : {FE(13)}, messages_sent : {<<>>, <<SampleMsg>>},
     events : {<<>>, <<SampleEvent>>}, contract_address : {FE(40), FE(41)}]

StateUpdates ==
    [new_root : {FE(4)}, old_root : {FE(8)},
     state_diff :
        [storage_diffs :
            {<<>>, <<[address |-> FE(50),
                      storage_entries |-> <<[key |-> FE(51), value |-> FE(52)]>>]>>},
         declared_contract_hashes : {<<>>, <<FE(53)>>},
         deployed_contracts : {<<>>, <<[address |-> FE(54), class_hash |-> FE(55)]>>},
         nonces : {<<>>, <<[contract_address |-> FE(56), nonce |-> FE(57)]>>}]]

\* JsonRpcClientError
BackendErrors ==
    {[kind |-> "RpcError", code |-> c] :
        c \in {"BlockNotFound", "TransactionHashNotFound", "Unknown"}}
    \cup {[kind |-> "TransportError"], [kind |-> "JsonError"]}

ErrorResponses == {[kind |-> "Error", error |-> e] : e \in BackendErrors}

----------------------------------------------------------------------------
(* HttpProviderError *)

Err(e) == [tag |-> "Err", err |-> e]
Ok(v) == [tag |-> "Ok", value |-> v]
NoResult == [tag |-> "None"]
NoResponse == [kind |-> "None"]
NoCall == [op |-> "none"]

\* the classification that takes every RPC error for "block not found"
from_provider_error_AnyRpcError(error) ==
    IF error.kind = "RpcError"
    THEN [variant |-> "BlockNotFound"]
    ELSE [variant |-> "Provider", source |-> error]

from_provider_error(error) ==
    IF error.kind = "RpcError" /\ error.code = "BlockNotFound"
    THEN [variant |-> "BlockNotFound"]
    ELSE [variant |-> "Provider", source |-> error]

is_block_not_found(e) == e.variant = "BlockNotFound"

is_pending(id) == id.kind = "Pending"

\* the selector conversion with Pending mapped to the Latest tag
BlockIdTryInto_PendingAsLatest(id) ==
    CASE id.kind \in {"Latest", "Pending"} -> Ok([kind |-> "Tag", tag |-> "Latest"])
      [] id.kind = "Hash" ->
            LET hash == BlockHashTryInto(id.hash)
            IN  IF hash.tag = "Err" THEN hash
                ELSE Ok([kind |-> "Hash", hash |-> hash.value])
      [] id.kind = "Number" -> Ok([kind |-> "Number", number |-> id.number])

\* TryFrom<&BlockId> for jsonrpc::models::BlockId
BlockIdTryInto(id) ==
    CASE id.kind = "Latest" -> Ok([kind |-> "Tag", tag |-> "Latest"])
      [] id.kind = "Pending" -> Ok([kind |-> "Tag", tag |-> "Pending"])
      [] id.kind = "Hash" ->
            LET hash == BlockHashTryInto(id.hash)
            IN  IF hash.tag = "Err" THEN hash
                ELSE Ok([kind |-> "Hash", hash |-> hash.value])
      [] id.kind = "Number" -> Ok([kind |-> "Number", number |-> id.number])

----------------------------------------------------------------------------
(* Provider for HttpProvider: each call runs to its backend request, is     *)
(* suspended while the request is in flight, and resumes on the answer.     *)

\* the call returns without reaching the backend
ReturnEarly(call, result) ==
    /\ ppc' = "done"
    /\ pcall' = call
    /\ presult' = result
    /\ UNCHANGED <<presp, requests>>

\* the call issues its backend request and awaits the answer
SendRequest(call) ==
    /\ ppc' = "awaiting"
    /\ pcall' = call
    /\ requests' = requests + 1
    /\ UNCHANGED <<presp, presult>>

\* the continuation that sends the request again when the backend answers an error
Resume_RetryOnError(resp, result) ==
    IF resp.kind = "Error"
    THEN /\ ppc' = "awaiting"
         /\ requests' = requests + 1
         /\ UNCHANGED <<pcall, presp, presult>>
    ELSE /\ ppc' = "done"
         /\ presp' = resp
         /\ presult' = result
         /\ UNCHANGED <<pcall, requests>>

\* the awaited answer arrived and the call returns
Resume(resp, result) ==
    /\ ppc' = "done"
    /\ presp' = resp
    /\ presult' = result
    /\ UNCHANGED <<pcall, requests>>

get_head ==
    /\ ppc = "idle"
    /\ SendRequest([op |-> "get_head", request |-> [method |-> "block_hash_and_number"]])
    /\ UNCHANGED <<cvars, svars, tvars>>

get_head_resume ==
    /\ ppc = "awaiting" /\ pcall.op = "get_head"
    /\ \E resp \in ErrorResponses
            \cup {[kind |-> "HashAndNumber", block_hash |-> h, block_number |-> n] :
                    h \in {FE(1), FE(2)}, n \in SampleU64} :
        Resume(resp,
            IF resp.kind = "Error" THEN Err(from_provider_error(resp.error))
            ELSE LET hash == FieldElementIntoProto(resp.block_hash)
                 IN  Ok([number |-> resp.block_number, hash |-> ProtoIntoBlockHash(hash)]))
    /\ UNCHANGED <<cvars, svars, tvars>>

get_block ==
    /\ ppc = "idle"
    /\ \E id \in BlockIds :
        LET block_id == BlockIdTryInto(id)
            call == [op |-> "get_block", id |-> id]
        IN  IF block_id.tag = "Err"
            THEN ReturnEarly(call, Err([variant |-> "InvalidBlockId"]))
            ELSE SendRequest([op |-> "get_block", id |-> id,
                              request |-> [method |-> "get_block_with_txs",
                                           block_id |-> block_id.value]])
    /\ UNCHANGED <<cvars, svars, tvars>>

\* get_block without the check of a confirmed answer against a Pending id
GetBlockResult_NoCheck(id, resp) ==
    CASE resp.kind = "Error" -> Err(from_provider_error(resp.error))
      [] resp.kind = "Block" ->
            Ok([status |-> BlockWithTxsStatusToProto(resp.block),
                header |-> BlockWithTxsHeaderToProto(resp.block),
                body |-> BlockWithTxsBodyToProto(resp.block)])
      [] resp.kind = "PendingBlock" ->
            IF ~is_pending(id)
            THEN Err([variant |-> "ExpectedPendingBlock"])
            ELSE Ok([status |-> PendingBlockWithTxsStatusToProto(resp.block),
                     header |-> PendingBlockWithTxsHeaderToProto(resp.block),
                     body |-> PendingBlockWithTxsBodyToProto(resp.block)])

\* the match on the backend's answer to get_block_with_txs
GetBlockResult(id, resp) ==
    CASE resp.kind = "Error" -> Err(from_provider_error(resp.error))
      [] resp.kind = "Block" ->
            IF is_pending(id)
            THEN Err([variant |-> "UnexpectedPendingBlock"])
            ELSE Ok([status |-> BlockWithTxsStatusToProto(resp.block),
                     header |-> BlockWithTxsHeaderToProto(resp.block),
                     body |-> BlockWithTxsBodyToProto(resp.block)])
      [] resp.kind = "PendingBlock" ->
            IF ~is_pending(id)
            THEN Err([variant |-> "ExpectedPendingBlock"])
            ELSE Ok([status |-> PendingBlockWithTxsStatusToProto(resp.block),
                     header |-> PendingBlockWithTxsHeaderToProto(resp.block),
                     body |-> PendingBlockWithTxsBodyToProto(resp.block)])

get_block_resume ==
    /\ ppc = "awaiting" /\ pcall.op = "get_block"
    /\ \E resp \in ErrorResponses
            \cup {[kind |-> "Block", block |-> b] : b \in Blocks}
            \cup {[kind |-> "PendingBlock", block |-> b] : b \in PendingBlocks} :
        Resume(resp, GetBlockResult(pcall.id, resp))
    /\ UNCHANGED <<cvars, svars, tvars>>

get_state_update ==
    /\ ppc = "idle"
    /\ \E id \in BlockIds :
        LET block_id == BlockIdTryInto(id)
            call == [op |-> "get_state_update", id |-> id]
        IN  IF block_id.tag = "Err"
            THEN ReturnEarly(call, Err([variant |-> "InvalidBlockId"]))
            ELSE SendRequest([op |-> "get_state_update", id |-> id,
                              request |-> [method |-> "get_state_update",
                                           block_id |-> block_id.value]])
    /\ UNCHANGED <<cvars, svars, tvars>>

get_state_update_resume ==
    /\ ppc = "awaiting" /\ pcall.op = "get_state_update"
    /\ \E resp \in ErrorResponses
            \cup {[kind |-> "StateUpdate", update |-> u] : u \in StateUpdates} :
        Resume(resp,
            IF resp.kind = "Error" THEN Err(from_provider_error(resp.error))
            ELSE Ok(StateUpdateToProto(resp.update)))
    /\ UNCHANGED <<cvars, svars, tvars>>

get_transaction_receipt ==
    /\ ppc = "idle"
    /\ \E bytes \in {FE(10), NotAFieldElement} :
        LET proto == FieldElementIntoProto(bytes)
            hash == ProtoTryIntoFieldElement(proto)
            call == [op |-> "get_transaction_receipt", hash |-> proto]
        IN  IF hash.tag = "Err"
            THEN ReturnEarly(call, Err([variant |-> "Provider", source |-> hash.err]))
            ELSE SendRequest([op |-> "get_transaction_receipt", hash |-> proto,
                              request |-> [method |-> "get_transaction_receipt",
                                           hash |-> hash.value]])
    /\ UNCHANGED <<cvars, svars, tvars>>

get_transaction_receipt_resume ==
    /\ ppc = "awaiting" /\ pcall.op = "get_transaction_receipt"
    /\ \E resp \in ErrorResponses
            \cup {[kind |-> "Receipt", receipt |-> r] : r \in Receipts} :
        Resume(resp,
            IF resp.kind = "Error" THEN Err(from_provider_error(resp.error))
            ELSE Ok(MaybePendingTransactionReceiptToProto(resp.receipt)))
    /\ UNCHANGED <<cvars, svars, tvars>>

\* the caller takes the result; the provider is ready for the next call
CallReturned ==
    /\ ppc = "done"
    /\ ppc' = "idle"
    /\ pcall' = NoCall
    /\ presp' = NoResponse
    /\ presult' = NoResult
    /\ requests' = 0
    /\ UNCHANGED <<cvars, svars, tvars>>

ProviderIdle ==
    /\ ppc = "idle" /\ pcall = NoCall /\ presp = NoResponse
    /\ presult = NoResult /\ requests = 0

CodecIdle == cin = <<>> /\ cout = NoResult

ServerIdle ==
    /\ spc = "spawn" /\ ct = FALSE /\ reporter = "not_spawned"
    /\ reflection = "unbuilt" /\ lis = "not_started" /\ inflight = 0
    /\ health = "unknown" /\ sret = "none"

TranscoderIdle == tin = [kind |-> "None"] /\ tout = NoResult

Init == ProviderIdle /\ CodecIdle /\ ServerIdle /\ TranscoderIdle

Next ==
    \/ get_head
    \/ get_head_resume
    \/ get_block
    \/ get_block_resume
    \/ get_state_update
    \/ get_state_update_resume
    \/ get_transaction_receipt
    \/ get_transaction_receipt_resume
    \/ CallReturned

Spec == Init /\ [][Next]_vars

----------------------------------------------------------------------------
(* Codec: a TransactionHash converted to a FieldElement *)

\* byte slices of every length up to MaxInputLen: a first byte, then a fill byte
CodecInputs ==
    {[i \in 1..n |-> IF i = 1 THEN first ELSE fill] :
        n \in 0..MaxInputLen, first \in {0, 7, 8, 255}, fill \in {0, 1, 255}}

try_from ==
    /\ cout = NoResult
    /\ cout' = TransactionHashTryInto(cin)
    /\ UNCHANGED <<cin, pvars, svars, tvars>>

CodecInit ==
    /\ ProviderIdle /\ ServerIdle /\ TranscoderIdle
    /\ cin \in CodecInputs /\ cout = NoResult

CodecNext == try_from

CodecSpec == CodecInit /\ [][CodecNext]_vars

----------------------------------------------------------------------------
(* Transcoder: one backend transaction normalized by Transaction::to_proto *)

\* backend transactions of every kind, with their hash, version and signature
TxInputs ==
    {TxOf(k, h, v, sig) :
        k \in TxKinds, h \in {FE(10), FE(60)},
        v \in {U64Of(0), U64Of(1), U64Of(2)},
        sig \in SeqsUpTo({FE(11), FE(12)}, MaxSig)}

to_proto ==
    /\ tout = NoResult
    /\ tout' = Ok(TransactionToProto(tin))
    /\ UNCHANGED <<tin, pvars, cvars, svars>>

TranscoderInit ==
    /\ ProviderIdle /\ CodecIdle /\ ServerIdle
    /\ tin \in TxInputs /\ tout = NoResult

TranscoderNext == to_proto

TranscoderSpec == TranscoderInit /\ [][TranscoderNext]_vars

----------------------------------------------------------------------------
(* Server::start, the listener it awaits, the health reporter task it      *)
(* spawns and the cancellation token they share                            *)

\* start returns: the future is dropped where it stands
StartReturns(value) ==
    /\ spc' = "returned"
    /\ sret' = value

\* tokio::spawn of health_reporter.start(ct.clone())
SpawnReporter ==
    /\ spc = "spawn"
    /\ reporter' = "running"
    /\ spc' = "reflection"
    /\ UNCHANGED <<ct, reflection, lis, inflight, health, sret, pvars, cvars, tvars>>

\* tonic_reflection Builder ... .build()?
BuildReflection ==
    /\ spc = "reflection"
    /\ \E built \in BOOLEAN :
        IF built
        THEN /\ reflection' = "built"
             /\ spc' = "serve"
             /\ UNCHANGED sret
        ELSE /\ reflection' = "failed"
             /\ StartReturns("ReflectionServer")
    /\ UNCHANGED <<ct, reporter, lis, inflight, health, pvars, cvars, tvars>>

\* serve_with_shutdown(addr, ct.cancelled()): binding the address
ServeBind ==
    /\ spc = "serve"
    /\ \E bound \in BOOLEAN :
        IF bound
        THEN /\ lis' = "serving"
             /\ spc' = "serving"
             /\ UNCHANGED sret
        ELSE /\ lis' = "failed"
             /\ StartReturns("Transport")
    /\ UNCHANGED <<ct, reporter, reflection, inflight, health, pvars, cvars, tvars>>

\* the listener accepts a request
ListenerAccept ==
    /\ lis = "serving"
    /\ inflight < MaxInflight
    /\ inflight' = inflight + 1
    /\ UNCHANGED <<spc, ct, reporter, reflection, lis, health, sret, pvars, cvars, tvars>>

\* a request in flight completes
ListenerComplete ==
    /\ lis \in {"serving", "draining"}
    /\ inflight > 0
    /\ inflight' = inflight - 1
    /\ UNCHANGED <<spc, ct, reporter, reflection, lis, health, sret, pvars, cvars, tvars>>

\* the shutdown future ct.cancelled() resolves: no new requests, drain the rest
ListenerShutdown ==
    /\ lis = "serving"
    /\ ct
    /\ lis' = "draining"
    /\ UNCHANGED <<spc, ct, reporter, reflection, inflight, health, sret, pvars, cvars, tvars>>

\* serve returns as soon as the shutdown signal fires, without draining
ServeReturns_NoDrain ==
    /\ spc = "serving"
    /\ lis = "draining"
    /\ spc' = "cancel"
    /\ UNCHANGED <<ct, reporter, reflection, lis, inflight, health, sret, pvars, cvars, tvars>>

\* the drained listener stops: serve_with_shutdown(..).await is Ok
ServeReturns ==
    /\ spc = "serving"
    /\ lis = "draining"
    /\ inflight = 0
    /\ lis' = "stopped"
    /\ spc' = "cancel"
    /\ UNCHANGED <<ct, reporter, reflection, inflight, health, sret, pvars, cvars, tvars>>

\* serving fails: serve_with_shutdown(..).await? is a transport error
ServeFails ==
    /\ spc = "serving"
    /\ lis \in {"serving", "draining"}
    /\ lis' = "failed"
    /\ inflight' = 0
    /\ StartReturns("Transport")
    /\ UNCHANGED <<ct, reporter, reflection, health, pvars, cvars, tvars>>

\* ct.cancel()
CancelReporter ==
    /\ spc = "cancel"
    /\ ct' = TRUE
    /\ spc' = "join"
    /\ UNCHANGED <<reporter, reflection, lis, inflight, health, sret, pvars, cvars, tvars>>

\* the join's error is dropped: reporter_handle.await without the `?`
JoinReporter_IgnoresError ==
    /\ spc = "join"
    /\ reporter \in {"finished", "panicked"}
    /\ StartReturns("Ok")
    /\ UNCHANGED <<ct, reporter, reflection, lis, inflight, health, pvars, cvars, tvars>>

\* start returns Ok after ct.cancel() without awaiting the reporter's handle
JoinReporter_NoWait ==
    /\ spc = "join"
    /\ StartReturns(IF reporter = "panicked" THEN "Task" ELSE "Ok")
    /\ UNCHANGED <<ct, reporter, reflection, lis, inflight, health, pvars, cvars, tvars>>

\* reporter_handle.await?; Ok(())
JoinReporter ==
    /\ spc = "join"
    /\ reporter \in {"finished", "panicked"}
    /\ StartReturns(IF reporter = "panicked" THEN "Task" ELSE "Ok")
    /\ UNCHANGED <<ct, reporter, reflection, lis, inflight, health, pvars, cvars, tvars>>

\* the owner of the token passed to start cancels it
ExternalCancel ==
    /\ ~ct
    /\ ct' = TRUE
    /\ UNCHANGED <<spc, reporter, reflection, lis, inflight, health, sret, pvars, cvars, tvars>>

\* the token the health reporter task was given: ct.clone()
ReporterToken == ct

\* the health reporter sees its token cancelled and its task ends
ReporterStops ==
    /\ reporter = "running"
    /\ ReporterToken
    /\ reporter' = "finished"
    /\ UNCHANGED <<spc, ct, reflection, lis, inflight, health, sret, pvars, cvars, tvars>>

\* the health reporter's tick: it checks storage and publishes the status
ReporterTick ==
    /\ reporter = "running"
    /\ \E status \in {"serving", "not_serving"} :
        /\ health # status
        /\ health' = status
    /\ UNCHANGED <<spc, ct, reporter, reflection, lis, inflight, sret, pvars, cvars, tvars>>

\* the health reporter task panics: its join will be a JoinError
ReporterPanics ==
    /\ reporter = "running"
    /\ reporter' = "panicked"
    /\ UNCHANGED <<spc, ct, reflection, lis, inflight, health, sret, pvars, cvars, tvars>>

ServerInit == ProviderIdle /\ CodecIdle /\ ServerIdle /\ TranscoderIdle

ServerNext ==
    \/ SpawnReporter
    \/ BuildReflection
    \/ ServeBind
    \/ ListenerAccept
    \/ ListenerComplete
    \/ ListenerShutdown
    \/ ServeReturns
    \/ ServeFails
    \/ CancelReporter
    \/ JoinReporter
    \/ ExternalCancel
    \/ ReporterTick
    \/ ReporterStops
    \/ ReporterPanics

ServerSpec == ServerInit /\ [][ServerNext]_vars

\* The runtime keeps polling start and the spawned task, the listener sees the
\* cancelled token and finishes the requests it drains, and the health
\* reporter ends once it sees its token cancelled.
ServerFairness ==
    /\ WF_vars(SpawnReporter)
    /\ WF_vars(BuildReflection)
    /\ WF_vars(ServeBind)
    /\ WF_vars(ListenerShutdown)
    /\ WF_vars(ListenerComplete)
    /\ WF_vars(ServeReturns)
    /\ WF_vars(CancelReporter)
    /\ WF_vars(JoinReporter)
    /\ WF_vars(ReporterStops)

ServerFairSpec == ServerInit /\ [][ServerNext]_vars /\ ServerFairness

----------------------------------------------------------------------------
(* Properties of get_block *)

GetBlockDone == ppc = "done" /\ pcall.op = "get_block"

MismatchErrors == {"UnexpectedPendingBlock", "ExpectedPendingBlock"}

\* the backend answered this get_block with the wrong kind of block
Mismatch ==
    /\ GetBlockDone
    /\ \/ is_pending(pcall.id) /\ presp.kind = "Block"
       \/ ~is_pending(pcall.id) /\ presp.kind = "PendingBlock"

\* C1: a confirmed block answered to a Pending id, or a pending block answered
\* to a Latest/Hash/Number id, makes get_block return a mismatch error and
\* never a (status, header, body) triple.
C1_MismatchRejected ==
    Mismatch => presult.tag = "Err" /\ presult.err.variant \in MismatchErrors

C1_Witness ==
    /\ Mismatch
    /\ is_pending(pcall.id)
    /\ presp.block.block_number = U64Of(100)
    /\ presult.tag = "Err"

\* C2: get_block(Pending) answered with a confirmed block fails with the
\* variant ExpectedPendingBlock.
C2_PendingGetsExpectedPendingBlock ==
    (GetBlockDone /\ is_pending(pcall.id) /\ presp.kind = "Block")
        => presult = Err([variant |-> "ExpectedPendingBlock"])

\* C3: a successful get_block for a Latest, Hash or Number id never returns the
\* status Pending, whatever status the backend's confirmed block carries.
C3_NonPendingNeverPending ==
    (GetBlockDone /\ ~is_pending(pcall.id) /\ presult.tag = "Ok")
        => presult.value.status # "Pending"

\* C4: a successful get_block(Pending) returns status Pending, the zero block
\* hash, block number u64::MAX and no new root, with parent hash, sequencer
\* address and timestamp (its 64 bits, as whole seconds) from the backend's block.
C4_PendingHeader ==
    (GetBlockDone /\ is_pending(pcall.id) /\ presult.tag = "Ok")
        => LET h == presult.value.header
               b == presp.block
           IN  /\ presult.value.status = "Pending"
               /\ h.block_hash.some /\ ProtoToBytes(h.block_hash.v) = Rep(0, 32)
               /\ h.block_number = Rep(255, 8)
               /\ ~h.new_root.some
               /\ h.parent_block_hash.some
               /\ ProtoToBytes(h.parent_block_hash.v) = b.parent_hash
               /\ h.sequencer_address.some
               /\ ProtoToBytes(h.sequencer_address.v) = b.sequencer_address
               /\ h.timestamp.some /\ h.timestamp.v.nanos = 0
               /\ I64Bits(h.timestamp.v.seconds) = b.timestamp
               /\ (b.timestamp[1] < 128 =>
                      h.timestamp.v.seconds = [negative |-> FALSE, magnitude |-> b.timestamp])

C4_Witness ==
    /\ GetBlockDone /\ is_pending(pcall.id) /\ presult.tag = "Ok"
    /\ presp.block.parent_hash = FE(6)
    /\ presp.block.timestamp = U64Of(100)
    /\ Len(presult.value.body.transactions) = 1

----------------------------------------------------------------------------
(* Properties of the receipt transcoder *)

\* C5: a normalized receipt, confirmed or pending, carries the input's contract
\* address exactly when its kind is Deploy or DeployAccount, and none otherwise.
C5_ContractAddressRule ==
    (ppc = "done" /\ pcall.op = "get_transaction_receipt" /\ presp.kind = "Receipt")
        => LET r == presp.receipt
               out == presult.value
           IN  IF r.kind \in DeployKinds
               THEN /\ out.contract_address.some
                    /\ ProtoToBytes(out.contract_address.v) = r.contract_address
               ELSE ~out.contract_address.some

----------------------------------------------------------------------------
(* Properties of Server::start *)

\* C6: the health reporter is cancelled only after the listener has fully
\* stopped: while the listener serves or drains, the reporter's token is not
\* cancelled and the reporter has not stopped on it.
C6_ReporterCancelledAfterListener ==
    lis \in {"serving", "draining"} => ~ReporterToken /\ reporter # "finished"

\* C7: the listener has stopped serving before start cancels and joins the
\* health reporter, and so before the join completes and start returns Ok.
C7_ListenerStopsBeforeJoin ==
    /\ spc \in {"cancel", "join"} => lis = "stopped" /\ inflight = 0
    /\ sret \in {"Ok", "Task"} => lis = "stopped" /\ inflight = 0

C7_Witness ==
    /\ spc = "returned" /\ sret = "Ok" /\ lis = "stopped"
    /\ reporter = "finished" /\ health = "not_serving"

\* C8: the listener never keeps serving after the health reporter task failed.
C8_NoDegradedServing ==
    ~(reporter = "panicked" /\ lis = "serving" /\ spc = "serving")

\* C9: start returns Err in exactly three cases: ReflectionServer when the
\* reflection build failed (the listener never started), Transport when the
\* listener failed to bind or serve, Task when the join of the health reporter
\* failed; otherwise it returns Ok, and only after the token was cancelled.
C9_ErrorTaxonomy ==
    /\ spc # "returned" => sret = "none"
    /\ lis \in {"draining", "stopped"} => ct
    /\ spc = "returned" =>
        /\ sret \in {"Ok", "ReflectionServer", "Transport", "Task"}
        /\ sret = "ReflectionServer" <=> reflection = "failed"
        /\ reflection = "failed" => lis = "not_started"
        /\ sret = "Transport" <=> lis = "failed"
        /\ sret = "Task" <=> (lis = "stopped" /\ reporter = "panicked")
        /\ sret = "Ok" <=> (lis = "stopped" /\ reporter = "finished")
        /\ sret = "Ok" => ct /\ reflection = "built"

C9_Witness ==
    spc = "returned" /\ sret = "Task" /\ reporter = "panicked" /\ lis = "stopped"

----------------------------------------------------------------------------
(* Properties of the codec *)

\* C10: every byte slice of at most 32 bytes converts, to the field element
\* whose 32 big-endian bytes are the input left-padded with zeros.
C10_LeftPadded ==
    (cout # NoResult /\ Len(cin) <= 32)
        => cout.tag = "Ok" /\ cout.value = LeftPad32(cin)

\* C11: a byte slice longer than 32 bytes is rejected with the size error
\* (FromByteArrayError) and yields no value: it is never truncated or accepted.
C11_TooLongRejected ==
    (cout # NoResult /\ Len(cin) > 32)
        => cout = [tag |-> "Err", err |-> "FromByteArrayError"]

C11_Witness ==
    /\ Len(cin) = 33 /\ cin[1] = 0 /\ cin[33] = 1
    /\ cout.tag = "Err"

----------------------------------------------------------------------------
(* Properties of the transaction transcoder *)

\* C12: a normalized transaction has the kind tag of the backend transaction
\* and its hash in meta.hash; for Deploy and L1Handler the meta has an empty
\* signature, no max_fee, no nonce, and the input's version.
C12_TransactionMeta ==
    tout # NoResult =>
        LET t == tout.value
            m == t.meta.v
        IN  /\ t.meta.some /\ t.transaction.some
            /\ t.transaction.v.kind = tin.kind
            /\ m.hash.some /\ ProtoToBytes(m.hash.v) = tin.transaction_hash
            /\ tin.kind \in {"Deploy", "L1Handler"} =>
                    /\ m.signature = <<>>
                    /\ ~m.max_fee.some
                    /\ ~m.nonce.some
                    /\ m.version = tin.version

C12_Witness ==
    /\ tin.kind = "L1Handler" /\ tin.version = U64Of(2)
    /\ tin.transaction_hash = FE(60)
    /\ tout.tag = "Ok"

\* C18: InvokeV0 and InvokeV1 are normalized with meta.version 0 whatever the
\* input; Declare, Deploy, L1Handler and DeployAccount copy the input's
\* version. So meta.version is the same for an InvokeV1 and an InvokeV0.
C18_InvokeVersionZero ==
    tout # NoResult =>
        tout.value.meta.v.version =
            IF tin.kind \in {"InvokeV0", "InvokeV1"} THEN Rep(0, 8) ELSE tin.version

C18_Witness ==
    /\ tin.kind = "InvokeV1"
    /\ tout.tag = "Ok"
    /\ tout.value.transaction.v.kind = "InvokeV1"
    /\ tout.value.meta.v.version = Rep(0, 8)

----------------------------------------------------------------------------
(* Properties of the provider's errors and of its backend requests *)

BlockNotFoundAnswer ==
    presp.kind = "Error" /\ presp.error = [kind |-> "RpcError", code |-> "BlockNotFound"]

\* C13: an error returned by a provider operation is classified "block not
\* found" exactly when the backend answered with its block-not-found RPC error
\* code; mismatch errors, malformed ids and every other transport or RPC error
\* are not.
C13_BlockNotFoundClassification ==
    (ppc = "done" /\ presult.tag = "Err")
        => /\ is_block_not_found(presult.err) <=> BlockNotFoundAnswer
           /\ presult.err.variant
                 \in {"UnexpectedPendingBlock", "ExpectedPendingBlock", "InvalidBlockId", "Provider"}
                 => ~is_block_not_found(presult.err)

C13_Witness ==
    /\ ppc = "done" /\ pcall.op = "get_state_update"
    /\ BlockNotFoundAnswer
    /\ presult.tag = "Err" /\ is_block_not_found(presult.err)

\* the backend selector each BlockId stands for
ExpectedSelector(id) ==
    CASE id.kind = "Latest" -> [kind |-> "Tag", tag |-> "Latest"]
      [] id.kind = "Pending" -> [kind |-> "Tag", tag |-> "Pending"]
      [] id.kind = "Hash" -> [kind |-> "Hash", hash |-> id.hash]
      [] id.kind = "Number" -> [kind |-> "Number", number |-> id.number]

MalformedHashId(id) == id.kind = "Hash" /\ BlockHashTryInto(id.hash).tag = "Err"

\* C14: get_block and get_state_update with a Hash id whose hash is no field
\* element fail with InvalidBlockId without any backend request; every other
\* id is sent to the backend as its selector: the Latest tag, the Pending tag,
\* the same hash, the same number.
C14_InvalidBlockId ==
    (ppc # "idle" /\ pcall.op \in {"get_block", "get_state_update"})
        => IF MalformedHashId(pcall.id)
           THEN /\ ppc = "done"
                /\ presult = Err([variant |-> "InvalidBlockId"])
                /\ requests = 0 /\ presp = NoResponse
           ELSE /\ requests = 1
                /\ pcall.request.block_id = ExpectedSelector(pcall.id)

C14_Witness ==
    /\ ppc = "done" /\ pcall.op = "get_state_update"
    /\ MalformedHashId(pcall.id)
    /\ presult.tag = "Err" /\ requests = 0

\* C15: a call issues at most one backend request; a failed request makes
\* the call return the error, with no second request; get_block returns a
\* value only after the answer arrived and its kind matched the id.
C15_SingleRequest ==
    /\ requests <= 1
    /\ ppc = "awaiting" => requests = 1 /\ presult = NoResult /\ presp = NoResponse
    /\ (ppc = "done" /\ presp # NoResponse) => requests = 1
    /\ (ppc = "done" /\ presp.kind = "Error") =>
            presult.tag = "Err" /\ presult.err.variant \in {"BlockNotFound", "Provider"}
    /\ (GetBlockDone /\ presult.tag = "Ok") =>
            /\ presp.kind \in {"Block", "PendingBlock"}
            /\ is_pending(pcall.id) <=> presp.kind = "PendingBlock"

C15_Witness ==
    /\ GetBlockDone /\ requests = 1
    /\ presp.kind = "Error" /\ presp.error.kind = "TransportError"
    /\ presult.tag = "Err"

----------------------------------------------------------------------------
(* Properties of Server::start: shutdown *)

\* C16: once the listener serves and the token is cancelled, start eventually
\* returns; and when it returns after the listener stopped, the health
\* reporter task has completed.
C16_ShutdownCompletes ==
    /\ (lis \in {"serving", "draining"} /\ ct) ~> (spc = "returned")
    /\ []((spc = "returned" /\ lis = "stopped") => reporter \in {"finished", "panicked"})

C16_Witness ==
    /\ spc = "returned" /\ sret = "Ok" /\ reflection = "built"
    /\ lis = "stopped" /\ ct /\ reporter = "finished" /\ health = "serving"

\* C17: whenever start has returned, with Ok or with any error, the health
\* reporter's token is cancelled and its task has terminated.
C17_ReporterStoppedAtReturn ==
    spc = "returned" => ReporterToken /\ reporter \in {"finished", "panicked"}

====
